---- MODULE Spec2Model ----
(***************************************************************************)
(* Model of momepy/intensity.py: the seven intensity characters            *)
(* (AreaRatio, Count, Courtyards, BlocksCount, Reached, NodeDensity,       *)
(* Density).  Every character is a constructor that reads a primary table  *)
(* (left / gdf), usually a secondary table (right) and a spatial weights   *)
(* object, and stores one result Series.                                   *)
(*                                                                         *)
(* Conventions of the model                                                *)
(*  - a table is a sequence of rows; its index is the default RangeIndex,  *)
(*    written 1..N here (pandas label k-1 is position k);                  *)
(*  - a number that may be a quotient, a missing value or an infinity is   *)
(*    a record [fn, num, den]: num/den, with den = 0 for what IEEE         *)
(*    division by zero gives (0/0 is not-a-number) and fn = "sqrt" for     *)
(*    the square root of num/den (np.nanstd);                              *)
(*  - a raised exception ends the call: pc = "raised" and error names the  *)
(*    exception type and the statement that raised it;                     *)
(*  - every entry of a result carries the primary row it was computed for  *)
(*    (row) next to the index label it is stored under (label);            *)
(*  - an argument that takes a column name or an array is modelled by the  *)
(*    column whose values it carries, and args.arrays lists the arguments  *)
(*    passed as an array of these values instead of the name;              *)
(*  - a local name of a table or of a list is bound to the caller's        *)
(*    object or to a copy; a column assignment or an append acts on the    *)
(*    object the name is bound to.                                         *)
(***************************************************************************)
EXTENDS Integers, Sequences, FiniteSets, TLC

\* Largest number of rows of a primary table.
MaxRows == 2
\* Largest number of rows of a secondary table.
MaxRight == 2

VARIABLES
  comp,          \* the class being constructed
  left,          \* primary table (left / gdf): sequence of rows
  right,         \* secondary table (right): sequence of rows
  sw,            \* spatial_weights: "None" or [neighbors, component_labels]
  working,       \* columns the call added to the caller's left / right table
  args,          \* the remaining arguments of the call
  pc,            \* "call", a loop name, "done" or "raised"
  i,             \* position of the row the running loop handles next
  results_list,  \* the local results_list
  loc,           \* the other locals of the call
  result,        \* the stored result Series (self.ar, self.c, ...)
  error          \* the exception that ended the call

vars == <<comp, left, right, sw, working, args, pc, i, results_list, loc, result,
          error>>

inputs == <<comp, left, right, args>>

----------------------------------------------------------------------------
(* Helpers: sequences, numbers, pandas pieces shared by the classes.       *)

SeqsUpTo(S, n) == UNION {[1..k -> S] : k \in 0..n}

Range(s) == {s[k] : k \in DOMAIN s}

RECURSIVE SumSeq(_)
SumSeq(s) == IF s = <<>> THEN 0 ELSE s[1] + SumSeq(Tail(s))

RECURSIVE Concat(_)
Concat(ss) == IF ss = <<>> THEN <<>> ELSE ss[1] \o Concat(Tail(ss))

\* The numbers of S in ascending order.
RECURSIVE SortedSeq(_)
SortedSeq(S) ==
  IF S = {} THEN <<>>
  ELSE LET m == CHOOSE x \in S : \A y \in S : x <= y
       IN <<m>> \o SortedSeq(S \ {m})

\* The positions of the rows of s that lie in keep, in row order.
SelectPos(s, keep) == SortedSeq(keep \cap DOMAIN s)

Num(n) == [fn |-> "id", num |-> n, den |-> 1]
NaN == [fn |-> "id", num |-> 0, den |-> 0]
IsNaN(v) == v.num = 0 /\ v.den = 0

\* a / b on numbers: IEEE division, no exception on a zero divisor.
Div(n, d) == [fn |-> "id", num |-> n, den |-> d]
DivVal(v, d) == [fn |-> v.fn, num |-> v.num, den |-> v.den * d]

\* Equality of two finite quotients.
RatEq(v, w) ==
  /\ v.fn = w.fn
  /\ v.den # 0
  /\ w.den # 0
  /\ v.num * w.den = w.num * v.den

NoError == [type |-> "none", at |-> "none"]
Raise(type, at) == [type |-> type, at |-> at]

\* pd.Series(values, index=index): values and index must have one length.
SeriesMismatch(values, index) == Len(values) # Len(index)
Series(values, index) ==
  [k \in 1..Len(index) |->
     [label |-> index[k], row |-> values[k].row, val |-> values[k].val]]

\* table.index of a table with the default RangeIndex.
RangeIndex(table) == [k \in 1..Len(table) |-> k]

\* The truth value Python gives the weighted argument.
Truthy(w) == w \in {"True", "yes"}
IsBool(w) == w \in {"True", "False"}
WeightedArgs == {"True", "False", "yes", "None"}

\* collections.Counter(xs): a mapping of the values present to their counts.
Counter(xs) ==
  [v \in Range(xs) |-> Cardinality({k \in DOMAIN xs : xs[k] = v})]
\* count[key]: a Counter answers 0 for a key it does not hold.
CounterGet(count, key) == IF key \in DOMAIN count THEN count[key] ELSE 0

Column(table, name) == [k \in DOMAIN table |-> table[k][name]]

\* Identifier columns of n rows: in row order, or in reverse row order.
IdAssignments(n) == {[k \in 1..n |-> k], [k \in 1..n |-> n + 1 - k]}

\* Symmetric neighbour lists over the labels 1..n (no self neighbour), each
\* list in ascending order; edges is a set of unordered pairs of labels.
Pairs(n) == {p \in SUBSET (1..n) : Cardinality(p) = 2}
NeighborsOf(n, edges) ==
  [k \in 1..n |-> SortedSeq({m \in 1..n : {k, m} \in edges})]

\* The object the caller passed, as opposed to a copy made by the call.
Caller == "caller"

CopyTableAliased(ref) == ref

\* DataFrame.copy(): a new table.
CopyTable(ref) == "copy"

\* list.copy() and list(x): a new list.
CopyList(ref) == "copy"

\* The caller's tables as passed: no column added.
NoColumns == [left |-> {}, right |-> {}]

\* Whether the argument called name was passed as an array.
IsArray(a, name) == name \in a.arrays

\* table[name] = array, where table is bound to ref, the caller's table
\* `side` or a copy of it: the columns added to the caller's tables after it.
SetColumn(w, side, ref, name) ==
  IF ref = Caller THEN [w EXCEPT ![side] = @ \cup {name}] ELSE w

\* neighbours.append(index), where neighbours is bound to ref, the caller's
\* list spatial_weights.neighbors[index] or a copy of it: the weights after it.
ListAppend(weights, index, ref) ==
  IF ref = Caller
  THEN [weights EXCEPT !.neighbors = [@ EXCEPT ![index] = Append(@, index)]]
  ELSE weights

----------------------------------------------------------------------------
(* AreaRatio                                                               *)

AreaRatioKeys == {"None", "uID"}

MergeLeft(l, r) ==
  Concat([a \in 1..Len(l) |->
            LET m == SelectPos(r, {b \in DOMAIN r : r[b].id = l[a].id})
            IN IF m = <<>>
               THEN <<[row |-> a, left_area |-> l[a].area, lf_area |-> 0]>>
               ELSE [k \in 1..Len(m) |->
                       [row |-> a, left_area |-> l[a].area,
                        lf_area |-> r[m[k]].area]]])

\* left[[key, areas]].merge(look_for, left_on=..., right_on=...): an inner
\* merge; one output row per (left row, matching right row), in left order.
MergeInner(l, r) ==
  Concat([a \in 1..Len(l) |->
            LET m == SelectPos(r, {b \in DOMAIN r : r[b].id = l[a].id})
            IN [k \in 1..Len(m) |->
                  [row |-> a, left_area |-> l[a].area, lf_area |-> r[m[k]].area]]])

InitAreaRatio ==
  /\ comp = "AreaRatio"
  /\ left \in SeqsUpTo([id : {1, 2}, area : {1, 2}], MaxRows)
  /\ right \in SeqsUpTo([id : {1, 2}, area : {1, 2}], MaxRight)
  /\ sw = "None"
  /\ args \in [unique_id : AreaRatioKeys, left_unique_id : AreaRatioKeys,
               right_unique_id : AreaRatioKeys,
               arrays : SUBSET {"left_areas", "right_areas"}]
  /\ working = NoColumns
  /\ pc = "call"
  /\ i = 1
  /\ results_list = <<>>
  /\ loc = <<>>
  /\ result = <<>>
  /\ error = NoError

\* if unique_id: ... else: if left_unique_id is None or right_unique_id is None
AreaRatioKeysMissing(a) ==
  /\ a.unique_id = "None"
  /\ (a.left_unique_id = "None" \/ a.right_unique_id = "None")

AreaRatio_Raise ==
  /\ comp = "AreaRatio"
  /\ pc = "call"
  /\ AreaRatioKeysMissing(args)
  /\ pc' = "raised"
  /\ error' = Raise("ValueError", "unique_id")
  /\ UNCHANGED <<inputs, sw, working, i, results_list, loc, result>>

\* left = left.copy(); right = right.copy(); left["mm_a"] = left_areas and
\* right["mm_a"] = right_areas for the areas passed as arrays.
AreaRatioWorking(w, a) ==
  LET l == CopyTable(Caller)
      r == CopyTable(Caller)
      wl == IF IsArray(a, "left_areas") THEN SetColumn(w, "left", l, "mm_a") ELSE w
  IN IF IsArray(a, "right_areas") THEN SetColumn(wl, "right", r, "mm_a") ELSE wl

AreaRatio_Call ==
  /\ comp = "AreaRatio"
  /\ pc = "call"
  /\ ~AreaRatioKeysMissing(args)
  /\ working' = AreaRatioWorking(working, args)
  /\ loc' = [objects_merged |-> MergeInner(left, right)]
  /\ result' = [k \in 1..Len(loc'.objects_merged) |->
                  [label |-> k, row |-> loc'.objects_merged[k].row,
                   val |-> Div(loc'.objects_merged[k].lf_area,
                               loc'.objects_merged[k].left_area)]]
  /\ pc' = "done"
  /\ UNCHANGED <<inputs, sw, i, results_list, error>>

NextAreaRatio == AreaRatio_Raise \/ AreaRatio_Call

SpecAreaRatio == InitAreaRatio /\ [][NextAreaRatio]_vars

----------------------------------------------------------------------------
(* Count                                                                   *)

\* Geometries of the primary table: type, area and length.
Shapes ==
  { [type |-> "Polygon", area |-> 1, length |-> 4],
    [type |-> "MultiPolygon", area |-> 2, length |-> 8],
    [type |-> "LineString", area |-> 0, length |-> 2],
    [type |-> "Point", area |-> 0, length |-> 0] }

PolygonTypes == {"Polygon", "MultiPolygon"}
LineTypes == {"LineString", "MultiLineString"}

\* left[[left_id, "geometry"]].join(df["mm_count"], on=left_id): a left join;
\* a row whose id is no key of the frequency table gets a missing value.
JoinCountInner(l, count) ==
  LET m == SelectPos(l, {b \in DOMAIN l : l[b].id \in DOMAIN count})
  IN [k \in 1..Len(m) |->
        [label |-> m[k], row |-> m[k], val |-> Num(count[l[m[k]].id])]]

JoinCount(l, count) ==
  [k \in 1..Len(l) |->
     [label |-> k, row |-> k,
      val |-> IF l[k].id \in DOMAIN count THEN Num(count[l[k].id]) ELSE NaN]]

\* joined.loc[joined["mm_count"].isna(), "mm_count"] = 0
FillNaSkipped(joined) == joined

FillNa(joined) ==
  [k \in DOMAIN joined |->
     [label |-> joined[k].label, row |-> joined[k].row,
      val |-> IF IsNaN(joined[k].val) THEN Num(0) ELSE joined[k].val]]

\* joined["mm_count"] / left.geometry.area (or .length), aligned on the index.
DivideBy(joined, l, measure) ==
  [k \in DOMAIN joined |->
     [label |-> joined[k].label, row |-> joined[k].row,
      val |-> DivVal(joined[k].val, l[joined[k].row].geometry[measure])]]

InitCount ==
  /\ comp = "Count"
  /\ \E n \in 0..MaxRows :
       \E ids \in IdAssignments(n), geoms \in [1..n -> Shapes] :
         left = [k \in 1..n |-> [id |-> ids[k], geometry |-> geoms[k]]]
  /\ right \in SeqsUpTo([id : 1..(MaxRows + 1)], MaxRight)
  /\ sw = "None"
  /\ args \in [weighted : WeightedArgs]
  /\ working = NoColumns
  /\ pc = "call"
  /\ i = 1
  /\ results_list = <<>>
  /\ loc = <<>>
  /\ result = <<>>
  /\ error = NoError

Count_joined == FillNa(JoinCount(left, Counter(Column(right, "id"))))

\* The outcome of the "if weighted:" block: an exception type or "none".
CountWeightError(l, weighted) ==
  IF ~Truthy(weighted) THEN "none"
  ELSE IF Len(l) = 0 THEN "KeyError"
  ELSE IF l[1].geometry.type \in PolygonTypes \cup LineTypes THEN "none"
  ELSE "TypeError"

Count_Raise ==
  /\ comp = "Count"
  /\ pc = "call"
  /\ CountWeightError(left, args.weighted) # "none"
  /\ pc' = "raised"
  /\ error' = Raise(CountWeightError(left, args.weighted), "weighted")
  /\ loc' = [joined |-> Count_joined]
  /\ UNCHANGED <<inputs, sw, working, i, results_list, result>>

Count_Call ==
  /\ comp = "Count"
  /\ pc = "call"
  /\ CountWeightError(left, args.weighted) = "none"
  /\ LET joined ==
           IF ~Truthy(args.weighted) THEN Count_joined
           ELSE IF left[1].geometry.type \in PolygonTypes
                THEN DivideBy(Count_joined, left, "area")
                ELSE DivideBy(Count_joined, left, "length")
     IN /\ loc' = [joined |-> joined]
        /\ result' = joined
  /\ pc' = "done"
  /\ UNCHANGED <<inputs, sw, working, i, results_list, error>>

NextCount == Count_Raise \/ Count_Call

SpecCount == InitCount /\ [][NextCount]_vars

----------------------------------------------------------------------------
(* Courtyards                                                              *)

\* Component labellings of n rows: row 1 has label 1 and every row has a
\* label used before it or the next unused one.
RECURSIVE MaxOf(_)
MaxOf(s) == IF s = <<>> THEN 0
            ELSE LET m == MaxOf(Tail(s)) IN IF s[1] > m THEN s[1] ELSE m
Labellings(n) ==
  {l \in [1..n -> 1..n] : \A k \in 1..n : l[k] <= 1 + MaxOf(SubSeq(l, 1, k - 1))}

\* What len(list(dissolved.interiors)) does on the merged shape of a
\* component: it gives a number of interior rings, or it raises.
InteriorOutcomes ==
  { [kind |-> "ok", n |-> 0], [kind |-> "ok", n |-> 1],
    [kind |-> "ValueError", n |-> 0], [kind |-> "AttributeError", n |-> 0] }

\* The local interiors before its first assignment.
Unbound == -1

InitCourtyards ==
  /\ comp = "Courtyards"
  /\ \E n \in 0..(MaxRows + 1) :
       \E labels \in Labellings(n), geo \in [1..n -> InteriorOutcomes] :
         /\ sw = [component_labels |-> labels]
         /\ left = [k \in 1..n |-> [dissolved |-> geo[labels[k]]]]
  /\ right = <<>>
  /\ args \in [arrays : SUBSET {"block_id"}]
  /\ working = NoColumns
  /\ pc = "call"
  /\ i = 1
  /\ results_list = <<>>
  /\ loc = <<>>
  /\ result = <<>>
  /\ error = NoError

\* gdf = gdf.copy(); gdf["mm_bid"] = block_id for a block_id passed as an
\* array (BlocksCount: data = gdf.copy(); data["mm_bid"] = block_id).
BlockIdWorking(w, a) ==
  LET gdf == CopyTable(Caller)
  IN IF IsArray(a, "block_id") THEN SetColumn(w, "left", gdf, "mm_bid") ELSE w

Courtyards_Call ==
  /\ comp = "Courtyards"
  /\ pc = "call"
  /\ pc' = "rows"
  /\ i' = 1
  /\ loc' = [courtyards |-> <<>>, interiors |-> Unbound,
             unions |-> [c \in Range(sw.component_labels) |-> 0]]
  /\ working' = BlockIdWorking(working, args)
  /\ UNCHANGED <<inputs, sw, results_list, result, error>>

\* components[components == comp].index
ToJoin(labels, c) == {b \in DOMAIN labels : labels[b] = c}

\* if index in courtyards: continue
Courtyards_Skip ==
  /\ comp = "Courtyards"
  /\ pc = "rows"
  /\ i <= Len(left)
  /\ i \in DOMAIN loc.courtyards
  /\ i' = i + 1
  /\ UNCHANGED <<inputs, sw, working, pc, results_list, loc, result, error>>

\* The value of interiors after the try statement on outcome o.
InteriorsAfterTry(interiors, o) ==
  IF o.kind = "ok" THEN o.n ELSE interiors

\* The exception the else branch of the row loop ends with on outcome o, or
\* "none": the try statement catches ValueError only, and reading interiors
\* before its first assignment raises UnboundLocalError.
CourtyardsRowError(interiors, o) ==
  IF o.kind \notin {"ok", "ValueError"} THEN o.kind
  ELSE IF InteriorsAfterTry(interiors, o) = Unbound THEN "UnboundLocalError"
  ELSE "none"

Courtyards_Union ==
  /\ comp = "Courtyards"
  /\ pc = "rows"
  /\ i <= Len(left)
  /\ i \notin DOMAIN loc.courtyards
  /\ CourtyardsRowError(loc.interiors, left[i].dissolved) = "none"
  /\ LET c == sw.component_labels[i]
         to_join == ToJoin(sw.component_labels, c)
         interiors == InteriorsAfterTry(loc.interiors, left[i].dissolved)
     IN loc' = [courtyards |->
                  [b \in DOMAIN loc.courtyards \cup to_join |->
                     IF b \in to_join THEN interiors ELSE loc.courtyards[b]],
                interiors |-> interiors,
                unions |-> [loc.unions EXCEPT ![c] = @ + 1]]
  /\ i' = i + 1
  /\ UNCHANGED <<inputs, sw, working, pc, results_list, result, error>>

Courtyards_Raise ==
  /\ comp = "Courtyards"
  /\ pc = "rows"
  /\ i <= Len(left)
  /\ i \notin DOMAIN loc.courtyards
  /\ CourtyardsRowError(loc.interiors, left[i].dissolved) # "none"
  /\ pc' = "raised"
  /\ error' = Raise(CourtyardsRowError(loc.interiors, left[i].dissolved), "interiors")
  /\ loc' = [loc EXCEPT !.unions[sw.component_labels[i]] = @ + 1]
  /\ UNCHANGED <<inputs, sw, working, i, results_list, result>>

\* The second loop and the construction of the Series.
Courtyards_Copy ==
  /\ comp = "Courtyards"
  /\ pc = "rows"
  /\ i > Len(left)
  /\ IF \A k \in 1..Len(left) : k \in DOMAIN loc.courtyards
     THEN /\ results_list' = [k \in 1..Len(left) |->
                                [row |-> k, val |-> Num(loc.courtyards[k])]]
          /\ result' = Series(results_list', RangeIndex(left))
          /\ pc' = "done"
          /\ error' = error
     ELSE /\ pc' = "raised"
          /\ error' = Raise("KeyError", "courtyards")
          /\ UNCHANGED <<results_list, result>>
  /\ UNCHANGED <<inputs, sw, working, i, loc>>

NextCourtyards ==
  \/ Courtyards_Call
  \/ Courtyards_Skip
  \/ Courtyards_Union
  \/ Courtyards_Raise
  \/ Courtyards_Copy

SpecCourtyards == InitCourtyards /\ [][NextCourtyards]_vars

----------------------------------------------------------------------------
(* Label based selection, shared by BlocksCount and Density                *)

\* What data.loc[...] is given: a list of labels or one label.
List(labels) == [kind |-> "list", items |-> labels]
Scalar(label) == [kind |-> "scalar", items |-> <<label>>]

\* data.set_index(unique_id): the column becomes the index and is dropped
\* from the columns.
SetIndex(columns, unique_id) == columns \ {unique_id}

\* data.loc[key] on a table indexed by uID: a list selects a frame, the rows
\* in the order of the list; one label that one row carries selects that row
\* as a Series.
Loc(data, key) ==
  LET rows == Concat([k \in 1..Len(key.items) |->
                        LET m == SelectPos(data, {b \in DOMAIN data : data[b].uID = key.items[k]})
                        IN [j \in 1..Len(m) |-> data[m[j]]]])
  IN [kind |-> IF key.kind = "scalar" /\ Len(rows) = 1 THEN "row" ELSE "frame",
      rows |-> rows]

\* Tables keyed by a unique id, with symmetric neighbour lists over the ids.
KeyedTables(n, Attrs) ==
  {[k \in 1..n |-> [uID |-> ids[k], attrs |-> at[k]]] :
     ids \in IdAssignments(n), at \in [1..n -> Attrs]}

----------------------------------------------------------------------------
(* BlocksCount                                                             *)

InitBlocksCount ==
  /\ comp = "BlocksCount"
  /\ \E n \in 0..MaxRows :
       /\ left \in KeyedTables(n, [bID : {1, 2}, area : {1, 2}])
       /\ \E edges \in SUBSET Pairs(n) : sw = [neighbors |-> NeighborsOf(n, edges)]
  /\ right = <<>>
  /\ args \in [weighted : WeightedArgs, unique_id : {"uID"}, block_id : {"bID"},
               arrays : SUBSET {"block_id"}]
  /\ working = NoColumns
  /\ pc = "call"
  /\ i = 1
  /\ results_list = <<>>
  /\ loc = <<>>
  /\ result = <<>>
  /\ error = NoError

BlocksCount_Call ==
  /\ comp = "BlocksCount"
  /\ pc = "call"
  /\ pc' = "rows"
  /\ i' = 1
  /\ loc' = [columns |-> SetIndex({"uID", "geometry",
                                   IF IsArray(args, "block_id") THEN "mm_bid"
                                   ELSE args.block_id},
                                  args.unique_id)]
  /\ working' = BlockIdWorking(working, args)
  /\ UNCHANGED <<inputs, sw, results_list, result, error>>

\* The neighbours the row loop selects with: the neighbour list and the row's
\* own label, or row[unique_id] when the list is empty.
BlocksCountNeighbours(nb, index) ==
  IF nb # <<>> THEN List(Append(nb, index)) ELSE Scalar(index)

\* spatial_weights after one pass of the row loop: neighbours is a copy of
\* the row's list, and the row's label is appended to it when it is not empty
\* (BlocksCount and Density alike).
WeightsAfterRow(weights, index) ==
  LET neighbours == CopyList(Caller)
  IN IF weights.neighbors[index] # <<>> THEN ListAppend(weights, index, neighbours)
     ELSE weights

\* The exception one pass of the row loop ends with, or "none".
BlocksCountRowError(nb, index, columns, unique_id, data, weighted) ==
  IF nb = <<>> /\ unique_id \notin columns THEN "KeyError"
  ELSE IF Loc(data, BlocksCountNeighbours(nb, index)).kind = "row" /\ IsBool(weighted)
       THEN "TypeError"
  ELSE IF ~IsBool(weighted) THEN "ValueError"
  ELSE "none"

\* The value one pass of the row loop appends.
BlocksCountValue(vicinity, weighted) ==
  LET blocks == Cardinality({vicinity[k].attrs.bID : k \in DOMAIN vicinity})
      areas == SumSeq([k \in DOMAIN vicinity |-> vicinity[k].attrs.area])
  IN IF weighted = "True" THEN Div(blocks, areas) ELSE Num(blocks)

BlocksCount_Row ==
  /\ comp = "BlocksCount"
  /\ pc = "rows"
  /\ i <= Len(left)
  /\ LET index == left[i].uID
         nb == sw.neighbors[index]
     IN /\ BlocksCountRowError(nb, index, loc.columns, args.unique_id, left,
                               args.weighted) = "none"
        /\ results_list' =
             Append(results_list,
                    [row |-> i,
                     val |-> BlocksCountValue(
                               Loc(left, BlocksCountNeighbours(nb, index)).rows,
                               args.weighted)])
        /\ sw' = WeightsAfterRow(sw, index)
  /\ i' = i + 1
  /\ UNCHANGED <<inputs, working, pc, loc, result, error>>

BlocksCount_Raise ==
  /\ comp = "BlocksCount"
  /\ pc = "rows"
  /\ i <= Len(left)
  /\ LET index == left[i].uID
         nb == sw.neighbors[index]
         e == BlocksCountRowError(nb, index, loc.columns, args.unique_id, left,
                                  args.weighted)
     IN /\ e # "none"
        /\ error' = Raise(e, IF e = "ValueError" THEN "weighted" ELSE "neighbours")
        /\ sw' = WeightsAfterRow(sw, index)
  /\ pc' = "raised"
  /\ UNCHANGED <<inputs, working, i, results_list, loc, result>>

BlocksCount_Finish ==
  /\ comp = "BlocksCount"
  /\ pc = "rows"
  /\ i > Len(left)
  /\ result' = Series(results_list, RangeIndex(left))
  /\ pc' = "done"
  /\ UNCHANGED <<inputs, sw, working, i, results_list, loc, error>>

NextBlocksCount ==
  \/ BlocksCount_Call
  \/ BlocksCount_Row
  \/ BlocksCount_Raise
  \/ BlocksCount_Finish

SpecBlocksCount == InitBlocksCount /\ [][NextBlocksCount]_vars

----------------------------------------------------------------------------
(* Density                                                                 *)

InitDensity ==
  /\ comp = "Density"
  /\ \E n \in 0..MaxRows :
       /\ left \in KeyedTables(n, [value : {1, 10}, area : {1, 5},
                                   geometry_area : {2, 4}])
       /\ \E edges \in SUBSET Pairs(n) : sw = [neighbors |-> NeighborsOf(n, edges)]
  /\ right = <<>>
  /\ args \in [values : {"value"}, areas : {"area", "None"}, unique_id : {"uID"},
               arrays : SUBSET {"values", "areas"}]
  /\ args.areas = "None" => ~IsArray(args, "areas")
  /\ working = NoColumns
  /\ pc = "call"
  /\ i = 1
  /\ results_list = <<>>
  /\ loc = <<>>
  /\ result = <<>>
  /\ error = NoError

\* The working columns the normalisation of values and areas writes: mm_v
\* for values passed as an array, mm_a for areas passed as an array or not
\* passed at all.
DensityColumns(a) ==
  (IF IsArray(a, "values") THEN {"mm_v"} ELSE {})
    \cup (IF a.areas = "None" \/ IsArray(a, "areas") THEN {"mm_a"} ELSE {})

\* data after the normalisation of values and areas: mm_v holds the values
\* passed, mm_a the areas passed or, without an areas argument, the areas of
\* the geometries.
DensityData(gdf, a) ==
  [k \in DOMAIN gdf |->
     [uID |-> gdf[k].uID,
      attrs |-> [c \in DOMAIN gdf[k].attrs \cup DensityColumns(a) |->
                   CASE c = "mm_v" -> gdf[k].attrs[a.values]
                     [] c = "mm_a" -> IF a.areas = "None"
                                      THEN gdf[k].attrs.geometry_area
                                      ELSE gdf[k].attrs[a.areas]
                     [] OTHER -> gdf[k].attrs[c]]]]

\* data = gdf.copy(); data[column] = ... for every working column.
DensityWorking(w, a) ==
  LET data == CopyTable(Caller)
      wv == IF "mm_v" \in DensityColumns(a) THEN SetColumn(w, "left", data, "mm_v")
            ELSE w
  IN IF "mm_a" \in DensityColumns(a) THEN SetColumn(wv, "left", data, "mm_a")
     ELSE wv

Density_Call ==
  /\ comp = "Density"
  /\ pc = "call"
  /\ pc' = "rows"
  /\ i' = 1
  /\ loc' = [data |-> DensityData(left, args),
             values |-> IF "mm_v" \in DensityColumns(args) THEN "mm_v"
                        ELSE args.values,
             areas |-> IF "mm_a" \in DensityColumns(args) THEN "mm_a"
                       ELSE args.areas]
  /\ working' = DensityWorking(working, args)
  /\ UNCHANGED <<inputs, sw, results_list, result, error>>

\* The neighbours the row loop selects with: the neighbour list and the row's
\* own label, or the bare label when the list is empty.
DensityNeighbours(nb, index) ==
  IF nb # <<>> THEN List(Append(nb, index)) ELSE Scalar(index)

\* sum(subset[column]): the builtin sum iterates its argument, which a
\* column of a frame allows and the single value of a row does not.
DensityRowError(subset) == IF subset.kind = "row" THEN "TypeError" ELSE "none"

DensityValue(subset, values, areas) ==
  Div(SumSeq([k \in DOMAIN subset.rows |-> subset.rows[k].attrs[values]]),
      SumSeq([k \in DOMAIN subset.rows |-> subset.rows[k].attrs[areas]]))

Density_Row ==
  /\ comp = "Density"
  /\ pc = "rows"
  /\ i <= Len(left)
  /\ LET index == left[i].uID
         subset == Loc(loc.data, DensityNeighbours(sw.neighbors[index], index))
     IN /\ DensityRowError(subset) = "none"
        /\ results_list' =
             Append(results_list,
                    [row |-> i, val |-> DensityValue(subset, loc.values, loc.areas)])
        /\ sw' = WeightsAfterRow(sw, index)
  /\ i' = i + 1
  /\ UNCHANGED <<inputs, working, pc, loc, result, error>>

Density_Raise ==
  /\ comp = "Density"
  /\ pc = "rows"
  /\ i <= Len(left)
  /\ LET index == left[i].uID
         subset == Loc(loc.data, DensityNeighbours(sw.neighbors[index], index))
     IN /\ DensityRowError(subset) # "none"
        /\ error' = Raise(DensityRowError(subset), "sum")
        /\ sw' = WeightsAfterRow(sw, index)
  /\ pc' = "raised"
  /\ UNCHANGED <<inputs, working, i, results_list, loc, result>>

Density_Finish ==
  /\ comp = "Density"
  /\ pc = "rows"
  /\ i > Len(left)
  /\ result' = Series(results_list, RangeIndex(left))
  /\ pc' = "done"
  /\ UNCHANGED <<inputs, sw, working, i, results_list, loc, error>>

NextDensity ==
  \/ Density_Call
  \/ Density_Row
  \/ Density_Raise
  \/ Density_Finish

SpecDensity == InitDensity /\ [][NextDensity]_vars

----------------------------------------------------------------------------
(* Reached                                                                 *)

ReachedModes == {"count", "sum", "mean", "std"}

\* The elements to be counted: the id of the street they belong to, a value
\* and the area of their geometry.
ReachedRows(n) ==
  {[id |-> s, value |-> o.value, area |-> o.area] :
     s \in 1..n, o \in {[value |-> 1, area |-> 3], [value |-> 2, area |-> 4]}}

InitReached ==
  /\ comp = "Reached"
  /\ \E n \in 0..MaxRows :
       /\ \E ids \in IdAssignments(n) : left = [k \in 1..n |-> [id |-> ids[k]]]
       /\ \/ sw = [given |-> FALSE, neighbors |-> <<>>]
          \/ \E edges \in SUBSET Pairs(n) :
               sw = [given |-> TRUE, neighbors |-> NeighborsOf(n, edges)]
  /\ right \in SeqsUpTo(ReachedRows(MaxRows), MaxRight)
  /\ args \in [mode : ReachedModes \cup {"area"}, values : {"value", "None"},
               arrays : SUBSET {"left_id", "right_id"}]
  /\ args.mode \in {"count", "area"} => args.values = "None"
  /\ working = NoColumns
  /\ pc = "call"
  /\ i = 1
  /\ results_list = <<>>
  /\ loc = <<>>
  /\ result = <<>>
  /\ error = NoError

\* For an id passed as an array: right = right.copy(); right["mm_id"] =
\* right_id, and left = left.copy(); left["mm_lid"] = left_id. A table whose
\* id is passed by name stays the caller's and is not written.
ReachedWorking(w, a) ==
  LET r == IF IsArray(a, "right_id") THEN CopyTable(Caller) ELSE Caller
      l == IF IsArray(a, "left_id") THEN CopyTable(Caller) ELSE Caller
      wr == IF IsArray(a, "right_id") THEN SetColumn(w, "right", r, "mm_id") ELSE w
  IN IF IsArray(a, "left_id") THEN SetColumn(wr, "left", l, "mm_lid") ELSE wr

Reached_Call ==
  /\ comp = "Reached"
  /\ pc = "call"
  /\ pc' = "rows"
  /\ i' = 1
  /\ loc' = [count |-> IF args.mode = "count" THEN Counter(Column(right, "id"))
                       ELSE <<>>]
  /\ working' = ReachedWorking(working, args)
  /\ UNCHANGED <<inputs, sw, results_list, result, error>>

ReachedIdsNoSelf(l, weights, index) ==
  IF ~weights.given THEN <<l[index].id>>
  ELSE [k \in 1..Len(weights.neighbors[index]) |-> l[weights.neighbors[index][k]].id]

\* ids of one pass of the row loop: the row's own id without spatial weights,
\* else the ids of left.iloc[neighbours + [index]].
ReachedIds(l, weights, index) ==
  IF ~weights.given THEN <<l[index].id>>
  ELSE LET neighbours == Append(weights.neighbors[index], index)
       IN [k \in 1..Len(neighbours) |-> l[neighbours[k]].id]

\* right.loc[right[right_id].isin(ids)][column]
ReachedValues(r, ids, column) ==
  LET m == SelectPos(r, {b \in DOMAIN r : r[b].id \in Range(ids)})
  IN [k \in 1..Len(m) |-> r[m[k]][column]]

\* np.nanstd(xs): the square root of the population variance.
NanStd(xs) ==
  [fn |-> "sqrt",
   num |-> Len(xs) * SumSeq([k \in DOMAIN xs |-> xs[k] * xs[k]]) - SumSeq(xs) * SumSeq(xs),
   den |-> Len(xs) * Len(xs)]

\* The value one pass of the row loop appends in a mode it knows.
ReachedValue(r, count, ids, mode, values) ==
  LET xs == ReachedValues(r, ids, IF values = "None" THEN "area" ELSE values)
  IN CASE mode = "count" ->
            Num(SumSeq([k \in DOMAIN ids |-> CounterGet(count, ids[k])]))
       [] mode = "sum" -> Num(SumSeq(xs))
       [] mode = "mean" -> Div(SumSeq(xs), Len(xs))
       [] mode = "std" -> NanStd(xs)

\* spatial_weights after one pass of the row loop: with weights, neighbours
\* is a new list of the row's neighbours and the row is appended to it
\* (NodeDensity alike).
ReachedWeightsAfterRow(weights, index) ==
  LET neighbours == CopyList(Caller)
  IN IF weights.given THEN ListAppend(weights, index, neighbours) ELSE weights

Reached_Row ==
  /\ comp = "Reached"
  /\ pc = "rows"
  /\ i <= Len(left)
  /\ results_list' =
       IF args.mode \in ReachedModes
       THEN Append(results_list,
                   [row |-> i,
                    val |-> ReachedValue(right, loc.count, ReachedIds(left, sw, i),
                                         args.mode, args.values)])
       ELSE results_list
  /\ sw' = ReachedWeightsAfterRow(sw, i)
  /\ i' = i + 1
  /\ UNCHANGED <<inputs, working, pc, loc, result, error>>

Reached_Finish ==
  /\ comp = "Reached"
  /\ pc = "rows"
  /\ i > Len(left)
  /\ ~SeriesMismatch(results_list, RangeIndex(left))
  /\ result' = Series(results_list, RangeIndex(left))
  /\ pc' = "done"
  /\ UNCHANGED <<inputs, sw, working, i, results_list, loc, error>>

Reached_Raise ==
  /\ comp = "Reached"
  /\ pc = "rows"
  /\ i > Len(left)
  /\ SeriesMismatch(results_list, RangeIndex(left))
  /\ pc' = "raised"
  /\ error' = Raise("ValueError", "Series")
  /\ UNCHANGED <<inputs, sw, working, i, results_list, loc, result>>

NextReached ==
  \/ Reached_Call
  \/ Reached_Row
  \/ Reached_Finish
  \/ Reached_Raise

SpecReached == InitReached /\ [][NextReached]_vars

----------------------------------------------------------------------------
(* NodeDensity                                                             *)

\* Column layouts of the edge table: the default names, other names, or both
\* (the default named columns then hold other data).
EdgeColumns ==
  {{"node_start", "node_end"}, {"u", "v"}, {"node_start", "node_end", "u", "v"}}
EdgeCounts == 0..1

InitNodeDensity ==
  /\ comp = "NodeDensity"
  /\ args \in [weighted : {"True", "False"}, node_degree : {"degree"},
               node_start : {"node_start", "u"}, node_end : {"node_end", "v"}]
  /\ (args.node_start = "u") <=> (args.node_end = "v")
  /\ \E n \in 0..MaxRows :
       /\ \E edges \in SUBSET Pairs(n) :
            sw = [given |-> TRUE, neighbors |-> NeighborsOf(n, edges)]
       /\ \E columns \in EdgeColumns, m \in EdgeCounts :
            /\ m > 0 => n > 0
            /\ \E rows \in [1..m -> [ends : [columns -> 1..n], length : {1, 2}]] :
                 right = [columns |-> columns, rows |-> rows]
       /\ \/ /\ args.weighted = "False"
             /\ left = [k \in 1..n |-> [degree |-> 1]]
          \/ /\ args.weighted = "True"
             /\ left \in [1..n -> [degree : {1, 3}]]
  /\ working = NoColumns
  /\ pc = "call"
  /\ i = 1
  /\ results_list = <<>>
  /\ loc = <<>>
  /\ result = <<>>
  /\ error = NoError

\* table[name] raises KeyError for a name that is no column of the table.
HasColumns(table, names) == names \subseteq table.columns

NodeDensity_Call ==
  /\ comp = "NodeDensity"
  /\ pc = "call"
  /\ HasColumns(right, {args.node_start, args.node_end})
  /\ pc' = "rows"
  /\ i' = 1
  /\ UNCHANGED <<inputs, sw, working, results_list, loc, result, error>>

NodeDensity_CallRaise ==
  /\ comp = "NodeDensity"
  /\ pc = "call"
  /\ ~HasColumns(right, {args.node_start, args.node_end})
  /\ pc' = "raised"
  /\ error' = Raise("KeyError", "node_start")
  /\ UNCHANGED <<inputs, sw, working, i, results_list, loc, result>>

\* The columns the row loop selects the edges by.
NodeDensityFilterColumns(node_start, node_end) ==
  [start |-> "node_start", end |-> "node_end"]

\* sum(edg.geometry.length) of the edges whose two filter columns both hold a
\* label of neighbours.
NodeDensityLength(edges, neighbours, by) ==
  LET m == SelectPos(edges.rows,
                     {b \in DOMAIN edges.rows :
                        /\ edges.rows[b].ends[by.start] \in Range(neighbours)
                        /\ edges.rows[b].ends[by.end] \in Range(neighbours)})
  IN SumSeq([k \in 1..Len(m) |-> edges.rows[m[k]].length])

NodeDensityNodes(l, neighbours, weighted) ==
  IF Truthy(weighted)
  THEN SumSeq([k \in 1..Len(neighbours) |-> l[neighbours[k]].degree - 1])
  ELSE Len(neighbours)

NodeDensity_Row ==
  /\ comp = "NodeDensity"
  /\ pc = "rows"
  /\ i <= Len(left)
  /\ LET neighbours == Append(sw.neighbors[i], i)
         by == NodeDensityFilterColumns(args.node_start, args.node_end)
     IN /\ HasColumns(right, {by.start, by.end})
        /\ LET number_nodes == NodeDensityNodes(left, neighbours, args.weighted)
               length == NodeDensityLength(right, neighbours, by)
           IN results_list' =
                Append(results_list,
                       [row |-> i,
                        val |-> IF length > 0 THEN Div(number_nodes, length)
                                ELSE Num(0)])
  /\ sw' = ReachedWeightsAfterRow(sw, i)
  /\ i' = i + 1
  /\ UNCHANGED <<inputs, working, pc, loc, result, error>>

NodeDensity_RowRaise ==
  /\ comp = "NodeDensity"
  /\ pc = "rows"
  /\ i <= Len(left)
  /\ LET by == NodeDensityFilterColumns(args.node_start, args.node_end)
     IN ~HasColumns(right, {by.start, by.end})
  /\ pc' = "raised"
  /\ error' = Raise("KeyError", "edg")
  /\ sw' = ReachedWeightsAfterRow(sw, i)
  /\ UNCHANGED <<inputs, working, i, results_list, loc, result>>

NodeDensity_Finish ==
  /\ comp = "NodeDensity"
  /\ pc = "rows"
  /\ i > Len(left)
  /\ result' = Series(results_list, RangeIndex(left))
  /\ pc' = "done"
  /\ UNCHANGED <<inputs, sw, working, i, results_list, loc, error>>

NextNodeDensity ==
  \/ NodeDensity_Call
  \/ NodeDensity_CallRaise
  \/ NodeDensity_Row
  \/ NodeDensity_RowRaise
  \/ NodeDensity_Finish

SpecNodeDensity == InitNodeDensity /\ [][NextNodeDensity]_vars

----------------------------------------------------------------------------
(* All classes                                                             *)

Init ==
  \/ InitAreaRatio
  \/ InitCount
  \/ InitCourtyards
  \/ InitBlocksCount
  \/ InitReached
  \/ InitNodeDensity
  \/ InitDensity

Next ==
  \/ NextAreaRatio
  \/ NextCount
  \/ NextCourtyards
  \/ NextBlocksCount
  \/ NextReached
  \/ NextNodeDensity
  \/ NextDensity

Spec == Init /\ [][Next]_vars

----------------------------------------------------------------------------
(* Properties                                                              *)

Returned == pc = "done"
Failed == pc = "raised"

\* The sum of f[x] over the x of S.
RECURSIVE SumSet(_, _)
SumSet(S, f) ==
  IF S = {} THEN 0
  ELSE LET x == CHOOSE y \in S : TRUE IN f[x] + SumSet(S \ {x}, f)

\* The result has one entry per primary row, entry k stored under the index
\* label of row k and computed for row k.
Aligned ==
  /\ Len(result) = Len(left)
  /\ \A k \in 1..Len(left) :
       /\ result[k].label = RangeIndex(left)[k]
       /\ result[k].row = k

\* The pairs (primary row, secondary row) an AreaRatio call joins.
MatchedPairs ==
  {p \in (1..Len(left)) \X (1..Len(right)) : left[p[1]].id = right[p[2]].id}

\* C1 as stated: whenever a class returns, its result has exactly one entry
\* per primary row, entry k being the one of primary row k.
C1_AlignedAll == Returned => Aligned

\* C1, amended: whenever a class other than AreaRatio returns, its result has
\* exactly one entry per primary row, entry k being the one of primary row k;
\* the result of AreaRatio has one entry per matched pair of a primary and a
\* secondary row, in the order of the primary rows.
C1_AlignedButAreaRatio ==
  /\ (Returned /\ comp # "AreaRatio") => Aligned
  /\ (Returned /\ comp = "AreaRatio") =>
       /\ Len(result) = Cardinality(MatchedPairs)
       /\ \A k \in 1..Len(result) :
            /\ \E p \in MatchedPairs : p[1] = result[k].row
            /\ k > 1 => result[k - 1].row <= result[k].row

\* A call of Reached over two streets returned two different values, each at
\* its own row.
C1_Witness ==
  /\ Returned
  /\ comp = "Reached"
  /\ Len(left) = 2
  /\ sw.given
  /\ result[1].val # result[2].val

\* The neighbourhood of the row with unique id u: its neighbours and itself.
Neighbourhood(u) == Range(sw.neighbors[u]) \cup {u}
\* The rows of the primary table whose unique id lies in the set ids.
RowsWithin(ids) == {m \in 1..Len(left) : left[m].uID \in ids}

DensityExpected(k) ==
  LET rows == RowsWithin(Neighbourhood(left[k].uID))
  IN Div(SumSet(rows, [m \in rows |-> left[m].attrs[args.values]]),
         SumSet(rows, [m \in rows |->
                         IF args.areas = "None" THEN left[m].attrs.geometry_area
                         ELSE left[m].attrs[args.areas]]))

\* C2: Density never fails on a row without neighbours, and the value it
\* returns for every row is the sum of the values over the row's neighbours
\* and the row itself divided by the sum of the areas over the same rows.
C2_DensityValue ==
  comp = "Density" =>
    /\ ~Failed
    /\ Returned =>
         \A k \in 1..Len(left) : RatEq(result[k].val, DensityExpected(k))

BlocksCountExpected(k) ==
  LET rows == RowsWithin(Neighbourhood(left[k].uID))
      blocks == Cardinality({left[m].attrs.bID : m \in rows})
  IN IF args.weighted = "True"
     THEN Div(blocks, SumSet(rows, [m \in rows |-> left[m].attrs.area]))
     ELSE Num(blocks)

\* C3: BlocksCount with weighted true or false never raises, a row without
\* neighbours included, and the value of every row is the number of distinct
\* block ids among the row's neighbours and the row itself, divided by the
\* sum of their areas when weighted is true.
C3_BlocksCountValue ==
  (comp = "BlocksCount" /\ IsBool(args.weighted)) =>
    /\ ~Failed
    /\ Returned =>
         \A k \in 1..Len(left) : RatEq(result[k].val, BlocksCountExpected(k))

\* C4: Courtyards does not return when the extraction of the interior rings
\* failed for the merged shape of some component.
C4_CourtyardsFailureReported ==
  (comp = "Courtyards" /\ Returned) =>
    \A k \in 1..Len(left) : left[k].dissolved.kind = "ok"

\* C5: when Courtyards returns, the union-and-count step has run exactly
\* once for every component and every row holds the number of interior rings
\* of the merged shape of its own component.
C5_CourtyardsOncePerComponent ==
  (comp = "Courtyards" /\ Returned) =>
    /\ \A c \in Range(sw.component_labels) : loc.unions[c] = 1
    /\ \A k \in 1..Len(left) :
         /\ left[k].dissolved.kind = "ok"
         /\ result[k].val = Num(left[k].dissolved.n)

NodeDensityExpected(k) ==
  LET nodes == Range(sw.neighbors[k]) \cup {k}
      edges == {b \in 1..Len(right.rows) :
                  /\ right.rows[b].ends[args.node_start] \in nodes
                  /\ right.rows[b].ends[args.node_end] \in nodes}
      length == SumSet(edges, [b \in edges |-> right.rows[b].length])
      number == IF args.weighted = "True"
                THEN SumSet(nodes, [m \in nodes |-> left[m].degree - 1])
                ELSE Cardinality(nodes)
  IN [number |-> number, length |-> length]

\* C6: on an edge table that has the columns named by node_start and
\* node_end, NodeDensity raises nothing and the value of every node is the
\* number of nodes of its neighbourhood divided by the total length of the
\* edges whose node_start and node_end columns both lie in the
\* neighbourhood, and the number 0 when that length is 0.
C6_NodeDensityValue ==
  (comp = "NodeDensity" /\ HasColumns(right, {args.node_start, args.node_end})) =>
    /\ ~Failed
    /\ Returned =>
         \A k \in 1..Len(left) :
           LET e == NodeDensityExpected(k)
           IN IF e.length = 0 THEN result[k].val = Num(0)
              ELSE RatEq(result[k].val, Div(e.number, e.length))

\* C7: Reached never returns a result for a mode other than count, sum, mean
\* and std.
C7_ReachedModeRejected ==
  (comp = "Reached" /\ args.mode \notin ReachedModes) => ~Returned

References(k) == Cardinality({j \in 1..Len(right) : right[j].id = left[k].id})

\* C8: Count with weighted=True does not return for a primary table holding a
\* geometry that is neither polygonal nor linear, and when it returns every
\* polygonal row is divided by its area and every linear row by its length.
C8_CountWeightedByType ==
  (comp = "Count" /\ args.weighted = "True") =>
    /\ (\E k \in 1..Len(left) : left[k].geometry.type \notin PolygonTypes \cup LineTypes)
         => ~Returned
    /\ Returned =>
         \A k \in 1..Len(left) :
           LET g == left[k].geometry
           IN result[k].val =
                Div(References(k), IF g.type \in PolygonTypes THEN g.area ELSE g.length)

\* C9: Count and BlocksCount never return a result for a weighted argument
\* that is neither True nor False.
C9_WeightedRejected ==
  (comp \in {"Count", "BlocksCount"} /\ ~IsBool(args.weighted)) => ~Returned

\* C10: when Count returns, every primary row has its entry; unweighted, the
\* entry is the number of secondary rows that carry the row's id, the number
\* 0 when there is none; weighted over a table of polygons, k references to a
\* row of area a give k / a.
C10_CountValue ==
  (comp = "Count" /\ Returned) =>
    /\ Aligned
    /\ args.weighted = "False" =>
         \A k \in 1..Len(left) :
           /\ result[k].val = Num(References(k))
           /\ ~IsNaN(result[k].val)
    /\ (/\ args.weighted = "True"
        /\ \A k \in 1..Len(left) : left[k].geometry.type \in PolygonTypes) =>
         \A k \in 1..Len(left) :
           RatEq(result[k].val, Div(References(k), left[k].geometry.area))

\* A weighted count over two polygons returned: one row is referenced twice
\* and the other is not referenced.
C10_Witness ==
  /\ comp = "Count"
  /\ Returned
  /\ args.weighted = "True"
  /\ Len(left) = 2
  /\ \A k \in 1..Len(left) : left[k].geometry.type \in PolygonTypes
  /\ \E k \in 1..Len(left) : References(k) = 2 /\ result[k].val.num = 2
  /\ \E k \in 1..Len(left) : References(k) = 0 /\ result[k].val.num = 0

\* The rows of the neighbourhood Reached resolves for row k: the row alone
\* without spatial weights, else its neighbours and the row itself.
ReachedNeighbourhood(k) ==
  IF ~sw.given THEN {k} ELSE Range(sw.neighbors[k]) \cup {k}

\* C11: when Reached returns in mode count, the value of every primary row is
\* the sum, over the rows of its neighbourhood, of the number of secondary
\* rows that carry the id of that row; without spatial weights that is the
\* number of secondary rows that carry the row's own id.
C11_ReachedCount ==
  (comp = "Reached" /\ args.mode = "count" /\ Returned) =>
    /\ Aligned
    /\ \A k \in 1..Len(left) :
         /\ result[k].val =
              Num(SumSet(ReachedNeighbourhood(k),
                         [m \in ReachedNeighbourhood(k) |-> References(m)]))
         /\ ~sw.given => result[k].val = Num(References(k))

\* Reached returned counts over two neighbouring streets: both streets are
\* referenced and each holds the count of the two together.
C11_Witness ==
  /\ comp = "Reached"
  /\ args.mode = "count"
  /\ Returned
  /\ sw.given
  /\ Len(left) = 2
  /\ sw.neighbors[1] # <<>>
  /\ References(1) = 1
  /\ References(2) = 1
  /\ result[1].val = Num(2)

\* The positions of the output entries AreaRatio computed from primary row a.
EntriesOf(a) == SelectPos(result, {k \in DOMAIN result : result[k].row = a})

\* The secondary rows that carry the key of primary row a.
MatchesOf(a) == SelectPos(right, {b \in DOMAIN right : right[b].id = left[a].id})

\* If the keys are missing the call does not return, and ends in a ValueError.
AreaRatioConfigurationError ==
  (comp = "AreaRatio" /\ AreaRatioKeysMissing(args)) =>
    /\ ~Returned
    /\ pc # "call" => (Failed /\ error.type = "ValueError")

\* C12 as stated: with the keys supplied AreaRatio returns exactly one output
\* row for every primary row that has a matching secondary row, holding a
\* matching secondary area / primary area, and none for a primary row without
\* a match; with the keys missing it fails with a ValueError.
C12_AreaRatioPerRow ==
  /\ AreaRatioConfigurationError
  /\ (comp = "AreaRatio" /\ Returned) =>
       \A a \in 1..Len(left) :
         /\ Len(EntriesOf(a)) = (IF MatchesOf(a) = <<>> THEN 0 ELSE 1)
         /\ \A j \in 1..Len(EntriesOf(a)) :
              \E b \in Range(MatchesOf(a)) :
                RatEq(result[EntriesOf(a)[j]].val,
                      Div(right[b].area, left[a].area))

\* C12, amended: with the keys supplied AreaRatio returns, in the order of the
\* primary rows, one output row per pair of a primary row and a secondary row
\* carrying its key, holding secondary area / primary area of that pair (1
\* when the two are equal); a primary row without a match has no output row,
\* and when no key repeats in the secondary table every matched primary row
\* has exactly one. With the keys missing it fails with a ValueError.
C12_AreaRatioPerPair ==
  /\ AreaRatioConfigurationError
  /\ (comp = "AreaRatio" /\ pc # "call" /\ ~AreaRatioKeysMissing(args)) => Returned
  /\ (comp = "AreaRatio" /\ Returned) =>
       /\ \A k \in 1..Len(result) :
            /\ result[k].row \in 1..Len(left)
            /\ k > 1 => result[k - 1].row <= result[k].row
       /\ \A a \in 1..Len(left) :
            /\ Len(EntriesOf(a)) = Len(MatchesOf(a))
            /\ \A j \in 1..Len(EntriesOf(a)) :
                 LET val == result[EntriesOf(a)[j]].val
                     b == MatchesOf(a)[j]
                 IN /\ RatEq(val, Div(right[b].area, left[a].area))
                    /\ right[b].area = left[a].area => RatEq(val, Num(1))
            /\ (\A b, c \in 1..Len(right) : right[b].id = right[c].id => b = c)
                 => Len(EntriesOf(a)) = (IF MatchesOf(a) = <<>> THEN 0 ELSE 1)

\* AreaRatio returned for a first primary row matched by two secondary rows,
\* one of them of the primary row's area, and a second primary row without a
\* match: two output rows, both of the first primary row.
C12_Witness ==
  /\ comp = "AreaRatio"
  /\ Returned
  /\ Len(left) = 2
  /\ Len(MatchesOf(1)) = 2
  /\ MatchesOf(2) = <<>>
  /\ right[1].area = left[1].area
  /\ right[2].area # left[1].area
  /\ Len(result) = 2
  /\ RatEq(result[1].val, Num(1))

\* C13: at every step of every call, to its return or its failure, the
\* caller's primary and secondary table keep their rows and gain no column
\* (no mm_a, mm_bid, mm_id, mm_lid or mm_v is written on them), and every
\* neighbour list of the spatial weights stays as passed (the row appended to
\* the neighbours is never appended to the caller's list); this holds for
\* areas, values and identifiers passed as arrays as well.
C13_CallerUnchanged ==
  /\ [](working = NoColumns)
  /\ [][/\ left' = left
        /\ right' = right
        /\ working' = working
        /\ sw' = sw]_vars

\* Reached returned for two neighbouring streets with both identifiers passed
\* as arrays: each street was appended to the neighbours of the other inside
\* the call, the caller's lists hold the one neighbour they held, and the
\* tables carry neither mm_id nor mm_lid.
C13_Witness ==
  /\ comp = "Reached"
  /\ Returned
  /\ args.arrays = {"left_id", "right_id"}
  /\ sw.given
  /\ Len(left) = 2
  /\ Len(right) > 0
  /\ sw.neighbors = <<(<<2>>), (<<1>>)>>
  /\ working = NoColumns

====
